---- MODULE Spec2Model ----
(***************************************************************************)
(* Model of youtube_downloader.py: the session loop of main(), the prompts *)
(* of get_user_input(), the selection resolver get_playlist_config(), the  *)
(* format builder get_format_string() and the orchestrator                 *)
(* download_videos().                                                      *)
(*                                                                         *)
(* Python strings are sequences of one-character strings.  The literal     *)
(* pieces of the library's format expressions are kept as single tokens,   *)
(* the interpolated values as characters.                                  *)
(***************************************************************************)
EXTENDS Integers, Sequences, FiniteSets, TLC

\* ------------------------------------------------------------------ bounds
MaxDigits == 2      \* longest text typed at the start/end index prompts
MaxTextLen == 2     \* longest enumerated text typed at the video-indices prompt

\* ------------------------------------------------------- Python primitives
\* None, as a value that is no text the user can type
None == <<"<None>">>

\* "sub in s"
Contains(s, sub) ==
    \E i \in 0..(Len(s) - Len(sub)) :
        \A j \in 1..Len(sub) : s[i + j] = sub[j]

\* "ch in s" for one character
HasChar(s, ch) == \E i \in 1..Len(s) : s[i] = ch

\* bool(x) of a text-or-None value
Truthy(x) == x # None /\ x # <<>>

DecimalDigits == {"0", "1", "2", "3", "4", "5", "6", "7", "8", "9"}

\* characters str.isdigit() accepts: the decimal digits and the other
\* Unicode digits, of which superscript two stands here
UnicodeDigits == DecimalDigits \cup {"sup2"}

\* str.isdigit(): non-empty and every character a digit
isdigit(x) == Len(x) > 0 /\ \A i \in 1..Len(x) : x[i] \in UnicodeDigits

\* int(x) succeeds: non-empty and every character a decimal digit
IntParses(x) == Len(x) > 0 /\ \A i \in 1..Len(x) : x[i] \in DecimalDigits

DigitValue(ch) ==
    CASE ch = "0" -> 0 [] ch = "1" -> 1 [] ch = "2" -> 2 [] ch = "3" -> 3
      [] ch = "4" -> 4 [] ch = "5" -> 5 [] ch = "6" -> 6 [] ch = "7" -> 7
      [] ch = "8" -> 8 [] ch = "9" -> 9

\* int(x) where it succeeds
RECURSIVE int(_)
int(x) ==
    IF Len(x) = 0 THEN 0
    ELSE 10 * int(SubSeq(x, 1, Len(x) - 1)) + DigitValue(x[Len(x)])

DigitChar(d) ==
    CASE d = 0 -> "0" [] d = 1 -> "1" [] d = 2 -> "2" [] d = 3 -> "3"
      [] d = 4 -> "4" [] d = 5 -> "5" [] d = 6 -> "6" [] d = 7 -> "7"
      [] d = 8 -> "8" [] d = 9 -> "9"

\* str(n) of a non-negative integer, as the f-string formats it
RECURSIVE str(_)
str(n) ==
    IF n < 10 THEN <<DigitChar(n)>>
    ELSE str(n \div 10) \o <<DigitChar(n % 10)>>

\* x.replace(' ', '')
RECURSIVE RemoveSpaces(_)
RemoveSpaces(x) ==
    IF Len(x) = 0 THEN <<>>
    ELSE IF Head(x) = " " THEN RemoveSpaces(Tail(x))
    ELSE <<Head(x)>> \o RemoveSpaces(Tail(x))

\* x.split(sep) for a one-character separator
RECURSIVE Split(_, _)
Split(x, sep) ==
    IF ~HasChar(x, sep) THEN <<x>>
    ELSE LET i == CHOOSE k \in 1..Len(x) :
                      x[k] = sep /\ \A m \in 1..(k - 1) : x[m] # sep
         IN  <<SubSeq(x, 1, i - 1)>> \o Split(SubSeq(x, i + 1, Len(x)), sep)

LowerChar(ch) ==
    CASE ch = "Y" -> "y" [] ch = "E" -> "e" [] ch = "S" -> "s"
      [] ch = "N" -> "n" [] OTHER -> ch

\* x.lower()
lower(x) == [i \in 1..Len(x) |-> LowerChar(x[i])]

\* all texts over an alphabet of length at most n
TextsUpTo(alphabet, n) == UNION {[1..k -> alphabet] : k \in 0..n}

\* ------------------------------------------------------------ URL classifier
\* urlparse(url).netloc: the text between "//" (after an optional scheme) and
\* the next "/", "?" or "#"
AfterScheme(url) ==
    IF HasChar(url, ":")
    THEN LET i == CHOOSE k \in 1..Len(url) :
                      url[k] = ":" /\ \A m \in 1..(k - 1) : url[m] # ":"
         IN  IF i > 1 /\ \A m \in 1..(i - 1) : url[m] \notin {"/", "?", "#", "["}
             THEN SubSeq(url, i + 1, Len(url))
             ELSE url
    ELSE url

netloc(url) ==
    LET rest == AfterScheme(url)
    IN  IF Len(rest) >= 2 /\ rest[1] = "/" /\ rest[2] = "/"
        THEN LET body == SubSeq(rest, 3, Len(rest))
                 stops == {k \in 1..Len(body) : body[k] \in {"/", "?", "#"}}
             IN  IF stops = {} THEN body
                 ELSE SubSeq(body, 1, (CHOOSE k \in stops : \A m \in stops : k <= m) - 1)
        ELSE <<>>

\* urlparse raises ValueError on an unbalanced IPv6 bracket in the netloc
urlparseRaises(url) ==
    LET n == netloc(url)
    IN  (HasChar(n, "[") /\ ~HasChar(n, "]")) \/ (HasChar(n, "]") /\ ~HasChar(n, "["))

s_youtube_com == <<"y","o","u","t","u","b","e",".","c","o","m">>
s_youtu_be == <<"y","o","u","t","u",".","b","e">>
s_playlist == <<"p","l","a","y","l","i","s","t">>
s_list == <<"&","l","i","s","t","=">>

validate_url(url) ==
    IF urlparseRaises(url) THEN FALSE
    ELSE Contains(netloc(url), s_youtube_com) \/ Contains(netloc(url), s_youtu_be)

is_playlist(url) == Contains(url, s_playlist) \/ Contains(url, s_list)

\* URLs typed at the prompts
UrlWatch == <<"h","t","t","p","s",":","/","/","y","o","u","t","u","b","e",".","c","o","m","/","w","a","t","c","h","?","v","=","a">>
UrlPlaylist == <<"h","t","t","p","s",":","/","/","y","o","u","t","u","b","e",".","c","o","m","/","p","l","a","y","l","i","s","t","?","l","i","s","t","=","b">>
UrlWatchInList == <<"h","t","t","p","s",":","/","/","y","o","u","t","u",".","b","e","/","a","?","t","=","1","&","l","i","s","t","=","b">>
UrlBareWord == <<"p","l","a","y","l","i","s","t">>
UrlBadBracket == <<"h","t","t","p",":","/","/","[","/">>
UrlForeignHost == <<"h","t","t","p","s",":","/","/","a",".","i","o","/","?","u","=","y","o","u","t","u",".","b","e">>

TypedUrls == {UrlWatch, UrlPlaylist, UrlWatchInList, UrlBareWord, UrlBadBracket, UrlForeignHost}


\* ------------------------------------------------------- prompt vocabularies
PlaylistOptions == {<<"Full playlist">>, <<"Select range">>, <<"Specific videos">>}
DownloadTypes == {<<"Video with Audio">>, <<"Audio Only">>}
q_best == <<"b","e","s","t">>
q_1080p == <<"1","0","8","0","p">>
q_720p == <<"7","2","0","p">>
q_480p == <<"4","8","0","p">>
q_360p == <<"3","6","0","p">>
Qualities == {q_best, q_1080p, q_720p, q_480p, q_360p}
AudioFormats == {<<"mp3">>, <<"wav">>, <<"m4a">>}
DefaultOutputPath == <<"downloads">>
TypedOutputPaths == {DefaultOutputPath, <<"out">>}

\* texts the user may type at the start/end index prompts
IndexDigitChars == {"0", "2"}
TypedIndexTexts == TextsUpTo(IndexDigitChars, MaxDigits) \cup {<<"4">>, <<"sup2">>, <<"x">>}

\* texts the user may type at the video-indices prompt
IndicesChars == {"1", "3", ",", "-", " "}
IndicesSpaced == <<"1", ",", " ", "3", ",", "5">>
IndicesDashed == <<"2", "-", "4">>
IndicesMixed == <<"1", "-", "3", ",", "5">>
TypedIndicesTexts ==
    TextsUpTo(IndicesChars, MaxTextLen) \cup {IndicesSpaced, IndicesDashed, IndicesMixed}

\* answers typed at the two y/n prompts
TypedAnswers == {<<"y">>, <<"Y">>, <<"n">>, <<>>, <<"y", "e", "s">>}

\* ------------------------------------------------------ preference collector
\* The answer inquirer.prompt records for each question.  A question whose
\* validate callback rejects the text is asked again, so only accepted texts
\* are recorded; a question whose ignore callback holds, or which is not in
\* the list, records None.
UrlAnswers == {x \in TypedUrls : validate_url(x)}

PlaylistOptionAnswers(is_playlist_url) ==
    IF is_playlist_url THEN PlaylistOptions ELSE {None}

IndexAnswers(playlist_options) ==
    IF playlist_options = <<"Select range">>
    THEN {x \in TypedIndexTexts : isdigit(x)}
    ELSE {None}

VideoIndicesAnswers(playlist_options) ==
    IF playlist_options = <<"Specific videos">> THEN TypedIndicesTexts ELSE {None}

QualityAnswers(download_type) ==
    IF download_type = <<"Audio Only">> THEN {None} ELSE Qualities

AudioFormatAnswers(download_type) ==
    IF download_type = <<"Video with Audio">> THEN {None} ELSE AudioFormats

NoPreferences ==
    [url |-> None, output_path |-> None, playlist_options |-> None,
     start_index |-> None, end_index |-> None, video_indices |-> None,
     download_type |-> None, quality |-> None, audio_format |-> None]

\* -------------------------------------------------------- selection resolver
ValueError == <<"<ValueError>">>

\* variant: the bounds of the range are written in the opposite order
get_playlist_config_swapped(preferences) ==
    IF preferences.playlist_options = <<"Select range">>
    THEN IF IntParses(preferences.start_index) /\ IntParses(preferences.end_index)
         THEN str(int(preferences.end_index)) \o <<"-">> \o str(int(preferences.start_index))
         ELSE ValueError
    ELSE IF preferences.playlist_options = <<"Specific videos">>
    THEN RemoveSpaces(preferences.video_indices)
    ELSE None

\* the value returned, or ValueError when int() raises
get_playlist_config(preferences) ==
    IF preferences.playlist_options = <<"Select range">>
    THEN IF IntParses(preferences.start_index) /\ IntParses(preferences.end_index)
         THEN str(int(preferences.start_index)) \o <<"-">> \o str(int(preferences.end_index))
         ELSE ValueError
    ELSE IF preferences.playlist_options = <<"Specific videos">>
    THEN RemoveSpaces(preferences.video_indices)
    ELSE None

\* -------------------------------------------------------- format spec builder
get_format_string(quality) ==
    IF quality = q_best
    THEN <<"bestvideo*+bestaudio/best">>
    ELSE LET height == SubSeq(quality, 1, Len(quality) - 1)
         IN  <<"bestvideo[height<=">> \o height \o <<"]+bestaudio/best[height<=">>
                 \o height \o <<"]">>


\* ------------------------------------------------------ download orchestrator
\* ydl_opts as first built
BaseOpts(output_path, audio_only, audio_format) ==
    [format |-> IF audio_only THEN <<"bestaudio/best">>
                ELSE <<"bestvideo+bestaudio/best">>,
     outtmpl |-> output_path \o <<"/%(title)s.%(ext)s">>,
     ignoreerrors |-> TRUE,
     no_warnings |-> FALSE,
     quiet |-> FALSE,
     postprocessors |->
        IF audio_only
        THEN <<[key |-> "FFmpegExtractAudio", preferredcodec |-> audio_format,
                preferredquality |-> "192"]>>
        ELSE <<>>]

\* "start, end = map(int, playlist_items.split('-'))" does not raise
RangeParses(playlist_items) ==
    LET parts == Split(playlist_items, "-")
    IN  Len(parts) = 2 /\ IntParses(parts[1]) /\ IntParses(parts[2])

\* the selection keys added to ydl_opts; evaluated where RangeParses allows
WithSelection(opts, playlist_items) ==
    IF ~Truthy(playlist_items) THEN opts
    ELSE IF HasChar(playlist_items, "-")
    THEN LET parts == Split(playlist_items, "-")
         IN  opts @@ [playliststart |-> int(parts[1]), playlistend |-> int(parts[2])]
    ELSE opts @@ [playlist_items |-> playlist_items]

\* variant: any answer that starts with y counts as yes
Affirmative_prefix(ans) == Len(ans) > 0 /\ lower(ans)[1] = "y"

\* the "Proceed?" and "download another?" tests
Affirmative(ans) == lower(ans) = <<"y">>

\* what extract_info(url, download=False) can do: raise, return None (the
\* library swallows extraction errors under ignoreerrors), or return a dict
\* with or without 'entries' whose duration is an integer or None (-1)
NoInfo == [kind |-> "unset", entries |-> FALSE, duration |-> 0]
ProbeOutcomes ==
    { [kind |-> "raised", entries |-> FALSE, duration |-> 0],
      [kind |-> "None", entries |-> FALSE, duration |-> 0],
      [kind |-> "dict", entries |-> TRUE, duration |-> 0],
      [kind |-> "dict", entries |-> FALSE, duration |-> 75],
      [kind |-> "dict", entries |-> FALSE, duration |-> -1] }

\* variant: a None probe result is summarised as an untitled single video
ProbeRaises_tolerant(i) ==
    \/ i.kind = "raised"
    \/ i.kind = "dict" /\ ~i.entries /\ i.duration = -1

\* the probe or the summary that follows it raises inside the try block
ProbeRaises(i) ==
    \/ i.kind = "raised"
    \/ i.kind = "None"
    \/ i.kind = "dict" /\ ~i.entries /\ i.duration = -1

\* ":02d"
Pad2(n) == IF n < 10 THEN <<"0">> \o str(n) ELSE str(n)

\* the summary lines logged after a probe that does not raise
Summary(i, playlist_items) ==
    IF i.entries
    THEN <<  <<"INFO", <<"Playlist: ">> >>, <<"INFO", <<"Number of videos: ">> >> >>
         \o (IF Truthy(playlist_items)
             THEN << <<"INFO", <<"Downloading videos: ">> \o playlist_items>> >>
             ELSE <<>>)
    ELSE <<  <<"INFO", <<"Title: ">> >>,
             <<"INFO", <<"Duration: ">> \o str(i.duration \div 60) \o <<":">>
                           \o Pad2(i.duration % 60)>> >>

LogStart == <<"INFO", <<"Starting download from: ">> >>
LogCancelled == <<"INFO", <<"Download cancelled by user">> >>
LogCompleted == <<"INFO", <<"Download completed successfully!">> >>
LogError == <<"ERROR", <<"An error occurred: ">> >>

\* --------------------------------------------------------------------- state
VARIABLES
    pc,               \* position in main / download_videos
    exitCause,        \* why the process ended: "running", "declined", "uncaught"
    url,              \* main: the text read by the first input()
    is_playlist_url,  \* main
    preferences,      \* main: the answers of get_user_input
    audio_only,       \* main
    quality,          \* main
    audio_format,     \* main
    playlist_items,   \* main
    ydl_opts,         \* download_videos: the configuration
    info,             \* download_videos: the probe result
    answer,           \* the text read at "Proceed with download?"
    success,          \* main: the value download_videos returned
    log,              \* the lines logged in the current attempt
    calls,            \* calls made in the current attempt
    download_result   \* how ydl.download ended: "none", "returned", "raised"

vars == <<pc, exitCause, url, is_playlist_url, preferences, audio_only, quality,
          audio_format, playlist_items, ydl_opts, info, answer, success, log,
          calls, download_result>>

NoCalls == [mkdir |-> 0, extract_info |-> 0, download |-> 0]

\* the locals of one loop iteration before it starts; every one of them is
\* assigned in an iteration before it is read
Fresh ==
    /\ url = None
    /\ is_playlist_url = FALSE
    /\ preferences = NoPreferences
    /\ audio_only = FALSE
    /\ quality = None
    /\ audio_format = None
    /\ playlist_items = None
    /\ ydl_opts = <<>>
    /\ info = NoInfo
    /\ answer = None
    /\ success = "None"
    /\ log = <<>>
    /\ calls = NoCalls
    /\ download_result = "none"

Init ==
    /\ pc = "input_url"
    /\ exitCause = "running"
    /\ Fresh

\* main, lines 160-161: read the URL and classify it
InputUrl ==
    /\ pc = "input_url"
    /\ \E u \in TypedUrls :
          /\ url' = u
          /\ is_playlist_url' = is_playlist(u)
    /\ pc' = "get_user_input"
    /\ UNCHANGED <<exitCause, preferences, audio_only, quality, audio_format,
                   playlist_items, ydl_opts, info, answer, success, log, calls,
                   download_result>>

\* main, line 164: run the prompts
GetUserInput ==
    /\ pc = "get_user_input"
    /\ \E u \in UrlAnswers, o \in TypedOutputPaths,
          po \in PlaylistOptionAnswers(is_playlist_url), dt \in DownloadTypes :
          \E si \in IndexAnswers(po), ei \in IndexAnswers(po),
             vi \in VideoIndicesAnswers(po),
             q \in QualityAnswers(dt), af \in AudioFormatAnswers(dt) :
             preferences' =
                [url |-> u, output_path |-> o, playlist_options |-> po,
                 start_index |-> si, end_index |-> ei, video_indices |-> vi,
                 download_type |-> dt, quality |-> q, audio_format |-> af]
    /\ pc' = "process"
    /\ UNCHANGED <<exitCause, url, is_playlist_url, audio_only, quality,
                   audio_format, playlist_items, ydl_opts, info, answer, success,
                   log, calls, download_result>>

\* main, lines 167-174: derive the arguments of download_videos
ProcessPreferences ==
    /\ pc = "process"
    /\ LET ao == preferences.download_type = <<"Audio Only">>
           sel == IF is_playlist_url /\ Truthy(preferences.playlist_options)
                  THEN get_playlist_config(preferences)
                  ELSE None
       IN  /\ audio_only' = ao
           /\ quality' = IF ~ao THEN preferences.quality ELSE q_best
           /\ audio_format' = IF ao THEN preferences.audio_format ELSE <<"mp3">>
           /\ IF sel = ValueError
              THEN /\ playlist_items' = None
                   /\ pc' = "terminated"
                   /\ exitCause' = "uncaught"
              ELSE /\ playlist_items' = sel
                   /\ pc' = "download_videos"
                   /\ exitCause' = exitCause
    /\ UNCHANGED <<url, is_playlist_url, preferences, ydl_opts, info, answer,
                   success, log, calls, download_result>>

\* download_videos, lines 101-124: create the directory, build the configuration
BuildConfig ==
    /\ pc = "download_videos"
    /\ calls' = [calls EXCEPT !.mkdir = @ + 1]
    /\ \E mkdirRaises \in BOOLEAN :
          LET opts == BaseOpts(preferences.output_path, audio_only, audio_format)
          IN  IF mkdirRaises
              THEN /\ ydl_opts' = ydl_opts
                   /\ pc' = "terminated"
                   /\ exitCause' = "uncaught"
              ELSE IF Truthy(playlist_items) /\ HasChar(playlist_items, "-")
                      /\ ~RangeParses(playlist_items)
              THEN /\ ydl_opts' = opts
                   /\ pc' = "terminated"
                   /\ exitCause' = "uncaught"
              ELSE /\ ydl_opts' = WithSelection(opts, playlist_items)
                   /\ pc' = "probe"
                   /\ exitCause' = exitCause
    /\ UNCHANGED <<url, is_playlist_url, preferences, audio_only, quality,
                   audio_format, playlist_items, info, answer, success, log,
                   download_result>>

\* download_videos, lines 126-139 and 150-152: probe and print the summary
Probe ==
    /\ pc = "probe"
    /\ calls' = [calls EXCEPT !.extract_info = @ + 1]
    /\ \E i \in ProbeOutcomes :
          /\ info' = i
          /\ IF ProbeRaises(i)
             THEN /\ log' = log \o <<LogStart>>
                           \o (IF i.kind = "dict"
                               THEN << <<"INFO", <<"Title: ">> >> >> ELSE <<>>)
                           \o <<LogError>>
                  /\ success' = "False"
                  /\ pc' = "ask_continue"
             ELSE /\ log' = log \o <<LogStart>> \o Summary(i, playlist_items)
                  /\ success' = success
                  /\ pc' = "confirm"
    /\ UNCHANGED <<exitCause, url, is_playlist_url, preferences, audio_only,
                   quality, audio_format, playlist_items, ydl_opts, answer,
                   download_result>>

\* download_videos, lines 141-143: the confirmation prompt
Confirm ==
    /\ pc = "confirm"
    /\ \E a \in TypedAnswers :
          /\ answer' = a
          /\ IF ~Affirmative(a)
             THEN /\ log' = log \o <<LogCancelled>>
                  /\ success' = "False"
                  /\ pc' = "ask_continue"
             ELSE /\ log' = log
                  /\ success' = success
                  /\ pc' = "download"
    /\ UNCHANGED <<exitCause, url, is_playlist_url, preferences, audio_only,
                   quality, audio_format, playlist_items, ydl_opts, info, calls,
                   download_result>>

\* variant: an error of the download call is not noticed
Download_unnoticed ==
    /\ pc = "download"
    /\ calls' = [calls EXCEPT !.download = @ + 1]
    /\ \E raises \in BOOLEAN :
          /\ download_result' = IF raises THEN "raised" ELSE "returned"
          /\ log' = log \o <<LogCompleted>>
          /\ success' = "True"
    /\ pc' = "ask_continue"
    /\ UNCHANGED <<exitCause, url, is_playlist_url, preferences, audio_only,
                   quality, audio_format, playlist_items, ydl_opts, info, answer>>

\* download_videos, lines 145-152: the download call and its outcome
Download ==
    /\ pc = "download"
    /\ calls' = [calls EXCEPT !.download = @ + 1]
    /\ \E raises \in BOOLEAN :
          IF raises
          THEN /\ download_result' = "raised"
               /\ log' = log \o <<LogError>>
               /\ success' = "False"
          ELSE /\ download_result' = "returned"
               /\ log' = log \o <<LogCompleted>>
               /\ success' = "True"
    /\ pc' = "ask_continue"
    /\ UNCHANGED <<exitCause, url, is_playlist_url, preferences, audio_only,
                   quality, audio_format, playlist_items, ydl_opts, info, answer>>

\* main, lines 186-188: "download another?", answered yes: the next iteration
ContinueLoop ==
    /\ pc = "ask_continue"
    /\ \E a \in TypedAnswers : Affirmative(a)
    /\ pc' = "input_url"
    /\ exitCause' = exitCause
    /\ url' = None
    /\ is_playlist_url' = FALSE
    /\ preferences' = NoPreferences
    /\ audio_only' = FALSE
    /\ quality' = None
    /\ audio_format' = None
    /\ playlist_items' = None
    /\ ydl_opts' = <<>>
    /\ info' = NoInfo
    /\ answer' = None
    /\ success' = "None"
    /\ log' = <<>>
    /\ calls' = NoCalls
    /\ download_result' = "none"

\* main, lines 186-188: "download another?", answered otherwise: leave the loop
LeaveLoop ==
    /\ pc = "ask_continue"
    /\ \E a \in TypedAnswers : ~Affirmative(a)
    /\ pc' = "terminated"
    /\ exitCause' = "declined"
    /\ UNCHANGED <<url, is_playlist_url, preferences, audio_only, quality,
                   audio_format, playlist_items, ydl_opts, info, answer, success,
                   log, calls, download_result>>

Next ==
    \/ InputUrl
    \/ GetUserInput
    \/ ProcessPreferences
    \/ BuildConfig
    \/ Probe
    \/ Confirm
    \/ Download
    \/ ContinueLoop
    \/ LeaveLoop

Spec == Init /\ [][Next]_vars


\* -------------------------------------------------------------- properties
\* the configuration of the current attempt has been built
ConfigBuilt == DOMAIN ydl_opts # {}

LastLogged == log[Len(log)]

Logged(entry) == \E k \in 1..Len(log) : log[k] = entry

\* the height bound a format expression puts on the video stream, -1 if none
VideoHeightCap(fmt) ==
    IF \E k \in 1..Len(fmt) : fmt[k] = "bestvideo[height<="
    THEN LET i == CHOOSE k \in 1..Len(fmt) : fmt[k] = "bestvideo[height<="
             j == CHOOSE k \in (i + 1)..Len(fmt) :
                     /\ fmt[k] \notin DecimalDigits
                     /\ \A m \in (i + 1)..(k - 1) : fmt[m] \in DecimalDigits
         IN  int(SubSeq(fmt, i + 1, j - 1))
    ELSE -1

\* C1: after a successful probe, an answer to "Proceed with download?" that is
\* not "y" in either case ends the attempt as cancelled: False is returned,
\* the cancellation is the last line logged and the download operation was
\* not called.
ConfirmationGate ==
    (info.kind = "dict" /\ answer # None /\ lower(answer) # <<"y">>)
        => /\ calls.download = 0
           /\ download_result = "none"
           /\ success = "False"
           /\ LastLogged = LogCancelled
           /\ pc \in {"ask_continue", "terminated"}

ConfirmationGateWitness ==
    /\ pc = "ask_continue"
    /\ info.kind = "dict"
    /\ answer = <<"y", "e", "s">>

\* C2: the process ends only because the user declined at "download
\* another?"; no error of an attempt ends it.
NoErrorEscapes == pc = "terminated" => exitCause = "declined"

\* C3: when the probe raises or returns None, the error is the last line
\* logged, False is returned, the download operation is not called, no
\* confirmation is asked and control is at the "download another?" prompt (or
\* past it, the user having declined).
ProbeFailureHandled ==
    info.kind \in {"raised", "None"}
        => /\ LastLogged = LogError
           /\ success = "False"
           /\ calls.download = 0
           /\ answer = None
           /\ \/ pc = "ask_continue"
              \/ pc = "terminated" /\ exitCause = "declined"

ProbeFailureWitness ==
    /\ pc = "ask_continue"
    /\ info.kind = "None"
    /\ calls.extract_info = 1

\* C4: in mode "Video with Audio" the format expression of the configuration
\* bounds the video height by the numeric prefix of the chosen tier, and
\* carries no bound for tier "best".
HeightCapped ==
    (ConfigBuilt /\ preferences.download_type = <<"Video with Audio">>)
        => VideoHeightCap(ydl_opts.format) =
              IF preferences.quality = q_best THEN -1
              ELSE int(SubSeq(preferences.quality, 1, Len(preferences.quality) - 1))

\* C5: for a URL classified as a playlist with mode "Select range", the
\* configuration carries playliststart and playlistend equal to the numbers
\* typed at the start and end prompts, and no playlist_items entry.
RangeSelectionConfigured ==
    (ConfigBuilt /\ is_playlist_url
        /\ preferences.playlist_options = <<"Select range">>)
        => /\ "playliststart" \in DOMAIN ydl_opts
           /\ "playlistend" \in DOMAIN ydl_opts
           /\ "playlist_items" \notin DOMAIN ydl_opts
           /\ ydl_opts.playliststart = int(preferences.start_index)
           /\ ydl_opts.playlistend = int(preferences.end_index)

RangeSelectionWitness ==
    /\ pc = "probe"
    /\ is_playlist_url
    /\ preferences.playlist_options = <<"Select range">>
    /\ preferences.start_index = <<"0", "2">>
    /\ preferences.end_index = <<"4">>
    /\ ydl_opts.playliststart = 2
    /\ ydl_opts.playlistend = 4

\* C6: for a URL classified as a playlist with mode "Specific videos" and a
\* non-blank index text, the configuration is built without an error and
\* carries the text with its spaces removed as playlist_items, and neither
\* playliststart nor playlistend.
SpecificSelectionIsItemList ==
    (ConfigBuilt /\ is_playlist_url
        /\ preferences.playlist_options = <<"Specific videos">>
        /\ Truthy(RemoveSpaces(preferences.video_indices)))
        => /\ exitCause # "uncaught"
           /\ "playlist_items" \in DOMAIN ydl_opts
           /\ ydl_opts.playlist_items = RemoveSpaces(preferences.video_indices)
           /\ "playliststart" \notin DOMAIN ydl_opts
           /\ "playlistend" \notin DOMAIN ydl_opts

\* C7: every selection produced from accepted answers has, as a range,
\* 1 <= start <= end and, as an explicit list, only positive integers.
SelectionInvariant ==
    (pc \notin {"input_url", "get_user_input", "process"} /\ Truthy(playlist_items))
        => /\ preferences.playlist_options = <<"Select range">>
                => /\ 1 <= int(preferences.start_index)
                   /\ int(preferences.start_index) <= int(preferences.end_index)
           /\ preferences.playlist_options = <<"Specific videos">>
                => LET tokens == Split(playlist_items, ",")
                   IN  \A k \in 1..Len(tokens) :
                          IntParses(tokens[k]) /\ int(tokens[k]) >= 1

\* C8: the URL the classifier has been applied to passed validate_url.
ClassifiedUrlValidated ==
    (pc # "input_url" /\ url # None) => validate_url(url)

\* C9: exactly one of the quality and audio-format prompts is shown, and the
\* shown answer determines the configuration: the quality tier fixes the
\* format expression in mode "Video with Audio", where no post-processor is
\* set; the audio format is the codec of the single post-processor in mode
\* "Audio Only".
MediaFieldsExclusive ==
    ConfigBuilt
        => /\ (preferences.quality = None) # (preferences.audio_format = None)
           /\ preferences.download_type = <<"Video with Audio">>
                => /\ preferences.audio_format = None
                   /\ ydl_opts.postprocessors = <<>>
                   /\ ydl_opts.format = get_format_string(preferences.quality)
           /\ preferences.download_type = <<"Audio Only">>
                => /\ preferences.quality = None
                   /\ Len(ydl_opts.postprocessors) = 1
                   /\ ydl_opts.postprocessors[1].preferredcodec
                         = preferences.audio_format

\* C10: in every attempt the directory is created before the probe, the probe
\* is issued before the confirmation is asked, the download operation is
\* called at most once and only after a probe that returned metadata and an
\* affirmative answer, and completion is reported only after that one call
\* returned without raising.
OrchestratorOrder ==
    /\ calls.mkdir <= 1 /\ calls.extract_info <= 1 /\ calls.download <= 1
    /\ calls.extract_info = 1 => calls.mkdir = 1
    /\ (pc = "confirm" \/ answer # None)
          => calls.mkdir = 1 /\ calls.extract_info = 1 /\ info.kind = "dict"
    /\ (pc = "download" \/ calls.download = 1)
          => /\ info.kind = "dict"
             /\ answer # None
             /\ lower(answer) = <<"y">>
    /\ pc = "download" => calls.download = 0 /\ success = "None"
    /\ (success = "True" \/ Logged(LogCompleted))
          => /\ calls.download = 1
             /\ download_result = "returned"
             /\ LastLogged = LogCompleted
    /\ download_result = "raised" => success = "False" /\ LastLogged = LogError

OrchestratorOrderWitness ==
    /\ pc = "ask_continue"
    /\ success = "True"
    /\ answer = <<"Y">>
    /\ calls = [mkdir |-> 1, extract_info |-> 1, download |-> 1]

====
